---------------------------- MODULE Spec2Model ----------------------------
(***************************************************************************)
(* Model of streamlit_app.py (Berlin travel guide): the memo-wrapped       *)
(* upstream calls (get_osm_places, search_location, get_gemini_response,   *)
(* get_exchange_data, get_weather_forecast, load_crime_data_excel) and the *)
(* page code that consumes what they return.                               *)
(*                                                                         *)
(* Text is modelled as a sequence of one-character strings, so that        *)
(* str.lower(), the substring test `kw in raw_cuisine` and                 *)
(* str.replace(" ", "+") are computed, not assumed.                        *)
(*                                                                         *)
(* The Korean literals of the source are romanised, TLA+ strings being     *)
(* ASCII:  한식 Hansik, 양식 Yangsik, 일식 Ilsik, 중식 Jungsik,            *)
(* 아시안 Asian, 카페 Cafe, 기타 Gita, 전체 Jeonche, 음식점 Eumsikjeom,    *)
(* 숙박시설 Sukbaksiseol, 관광명소 Gwangwangmyeongso, 장소 Jangso,         *)
(* "AI 서비스 오류" AI_seobiseu_oryu, "API 키 확인 필요" API_ki_hwagin.    *)
(***************************************************************************)
EXTENDS Naturals, Sequences, FiniteSets, TLC

VARIABLES
    pc,          \* "idle": no part of the page has run; "done": a part called
                 \* op, op returned ret and the part's code that consumes ret ran
    op,          \* the wrapper that part of the page called ("none" before)
    args,        \* its arguments
    upstream,    \* what the external service / file answers to that call
    ret,         \* what the wrapper returned
    page_error,  \* TRUE when the page code consuming ret raised (the page crashes)
    cache,       \* line 132: what st.cache_data holds for get_osm_places, a
                 \* function from argument tuples to the value returned
    log,         \* the calls of get_osm_places the page made so far, in order:
                 \* the argument tuple, what Overpass answered (NotContacted
                 \* when no request was sent) and the value returned
    session_state \* lines 256-260: st.session_state

vars == <<pc, op, args, upstream, ret, page_error, cache, log, session_state>>

----------------------------------------------------------------------------
(* Bounds of the model *)

\* longest element list an Overpass response carries
MaxElements == 2
\* most selections in the cuisine multiselect
MaxFilterLen == 2
\* most data rows of the crime spreadsheet
MaxRows == 2

----------------------------------------------------------------------------
(* Text helpers: str.lower, `in`, str.replace *)

UpperChars == <<"A","B","C","D","E","F","G","H","I","J","K","L","M",
                "N","O","P","Q","R","S","T","U","V","W","X","Y","Z">>
LowerChars == <<"a","b","c","d","e","f","g","h","i","j","k","l","m",
                "n","o","p","q","r","s","t","u","v","w","x","y","z">>

LowerChar(c) ==
    IF \E i \in 1..Len(UpperChars) : UpperChars[i] = c
    THEN LowerChars[CHOOSE i \in 1..Len(UpperChars) : UpperChars[i] = c]
    ELSE c

\* str.lower()
Lower(s) == [i \in 1..Len(s) |-> LowerChar(s[i])]

\* `kw in s` for two texts: kw occurs as a contiguous substring of s
Contains(kw, s) ==
    \E i \in 0..(Len(s) - Len(kw)) :
        \A j \in 1..Len(kw) : s[i + j] = kw[j]

\* The values of a sequence
Range(f) == {f[i] : i \in DOMAIN f}

\* str.replace(" ", "+")
ReplaceSpaces(s) == [i \in 1..Len(s) |-> IF s[i] = " " THEN "+" ELSE s[i]]

----------------------------------------------------------------------------
(* get_osm_places: the bucket table (a dict, iterated in insertion order) *)

\* The table iterated with 양식 before 한식
CuisineOrder_YangsikFirst == <<"Yangsik", "Hansik", "Ilsik", "Jungsik", "Asian", "Cafe">>

CuisineOrder == <<"Hansik", "Yangsik", "Ilsik", "Jungsik", "Asian", "Cafe">>

cuisine_map ==
    [Hansik  |-> << <<"k","o","r","e","a","n">> >>,
     Yangsik |-> << <<"i","t","a","l","i","a","n">>,
                    <<"f","r","e","n","c","h">>,
                    <<"g","e","r","m","a","n">>,
                    <<"a","m","e","r","i","c","a","n">>,
                    <<"b","u","r","g","e","r">>,
                    <<"p","i","z","z","a">>,
                    <<"s","t","e","a","k">> >>,
     Ilsik   |-> << <<"j","a","p","a","n","e","s","e">>,
                    <<"s","u","s","h","i">>,
                    <<"r","a","m","e","n">> >>,
     Jungsik |-> << <<"c","h","i","n","e","s","e">>,
                    <<"d","i","m"," ","s","u","m">> >>,
     Asian   |-> << <<"v","i","e","t","n","a","m","e","s","e">>,
                    <<"t","h","a","i">>,
                    <<"a","s","i","a","n">>,
                    <<"i","n","d","i","a","n">> >>,
     Cafe    |-> << <<"c","o","f","f","e","e">>,
                    <<"c","a","f","e">>,
                    <<"c","a","k","e">>,
                    <<"b","a","k","e","r","y">> >>]

\* any(c in raw_cuisine for c in keywords)
AnyKeywordIn(keywords, raw_cuisine) ==
    \E k \in 1..Len(keywords) : Contains(keywords[k], raw_cuisine)


\* FilterActive without the test for the "전체" sentinel
FilterActive_IgnoresJeonche(cuisine_filter) ==
    /\ ~cuisine_filter.isNone
    /\ Len(cuisine_filter.items) > 0

\* line 160: `cuisine_filter and "전체" not in cuisine_filter`.  The argument is
\* None (isNone) or a list (items); None and [] are falsy.
FilterActive(cuisine_filter) ==
    /\ ~cuisine_filter.isNone
    /\ Len(cuisine_filter.items) > 0
    /\ ~(\E i \in 1..Len(cuisine_filter.items) : cuisine_filter.items[i] = "Jeonche")

\* ScanFilter whose "기타" branch does not set is_match
RECURSIVE ScanFilter_GitaIgnored(_, _, _, _)
ScanFilter_GitaIgnored(items, raw_cuisine, i, is_match) ==
    IF i > Len(items)
    THEN [is_match |-> is_match, detected_type |-> "Gita"]
    ELSE IF items[i] \in DOMAIN cuisine_map
              /\ AnyKeywordIn(cuisine_map[items[i]], raw_cuisine)
         THEN [is_match |-> TRUE, detected_type |-> items[i]]
         ELSE ScanFilter_GitaIgnored(items, raw_cuisine, i + 1, is_match)

\* lines 161-165: the loop over the user's selections, from selection i on.
\* A selected bucket with a keyword in raw_cuisine sets detected_type and
\* breaks; "기타" sets is_match and the loop goes on.
RECURSIVE ScanFilter(_, _, _, _)
ScanFilter(items, raw_cuisine, i, is_match) ==
    IF i > Len(items)
    THEN [is_match |-> is_match, detected_type |-> "Gita"]
    ELSE LET user_select == items[i] IN
         IF user_select \in DOMAIN cuisine_map
         THEN IF AnyKeywordIn(cuisine_map[user_select], raw_cuisine)
              THEN [is_match |-> TRUE, detected_type |-> user_select]
              ELSE ScanFilter(items, raw_cuisine, i + 1, is_match)
         ELSE IF user_select = "Gita"
              THEN ScanFilter(items, raw_cuisine, i + 1, TRUE)
              ELSE ScanFilter(items, raw_cuisine, i + 1, is_match)

\* lines 168-169: the loop over cuisine_map.items(), from bucket k on; the
\* first bucket with a keyword in raw_cuisine wins, "기타" when none has.
RECURSIVE ScanTable(_, _)
ScanTable(raw_cuisine, k) ==
    IF k > Len(CuisineOrder)
    THEN "Gita"
    ELSE IF AnyKeywordIn(cuisine_map[CuisineOrder[k]], raw_cuisine)
         THEN CuisineOrder[k]
         ELSE ScanTable(raw_cuisine, k + 1)

\* The cuisine branch taken for every category
ClassifiesCuisine_Always(category) == TRUE

\* line 158: the branch that classifies and filters
ClassifiesCuisine(category) == category = "restaurant"

\* HasName that also requires the name to be non-empty
HasName_NonEmpty(element) ==
    /\ "tags" \in DOMAIN element
    /\ "name" \in DOMAIN element.tags
    /\ element.tags.name.text # <<>>

\* line 153: `'tags' in element and 'name' in element['tags']`
HasName(element) ==
    /\ "tags" \in DOMAIN element
    /\ "name" \in DOMAIN element.tags

\* A JSON value is [text |-> <<chars>>] or [num |-> n]; only text has .lower()
IsText(v) == "text" \in DOMAIN v

Berlin == <<" ","B","e","r","l","i","n">>

\* lines 171-172: the search link of a place
Link(name) == <<"https://www.google.com/search?q=">> \o ReplaceSpaces(name \o Berlin)

\* lines 174-177: the label
Desc(category, detected_type) ==
    CASE category = "restaurant" -> <<"Eumsikjeom (", detected_type, ")">>
      [] category = "hotel"      -> <<"Sukbaksiseol">>
      [] category = "tourism"    -> <<"Gwangwangmyeongso">>
      [] OTHER                   -> <<"Jangso">>

\* lines 153-179: one pass of the loop body over one element:
\*   [kind |-> "skip"]          nothing appended (no name, or filtered out)
\*   [kind |-> "raise"]         an exception left the loop body
\*   [kind |-> "append", entry] the entry appended to results
ProcessElement(category, element, cuisine_filter) ==
    IF ~HasName(element)
    THEN [kind |-> "skip"]
    ELSE
      LET tags == element.tags
          cuisine == IF "cuisine" \in DOMAIN tags
                     THEN tags.cuisine
                     ELSE [text |-> <<"g","e","n","e","r","a","l">>]
      IN
      IF ~IsText(cuisine)
      THEN [kind |-> "raise"]                  \* line 155: .lower() of a non-str
      ELSE
        LET raw_cuisine == Lower(cuisine.text)
            scan == ScanFilter(cuisine_filter.items, raw_cuisine, 1, FALSE)
            filtered == ClassifiesCuisine(category) /\ FilterActive(cuisine_filter)
            detected_type ==
                IF ~ClassifiesCuisine(category) THEN "Gita"
                ELSE IF filtered THEN scan.detected_type
                ELSE ScanTable(raw_cuisine, 1)
        IN
        IF filtered /\ ~scan.is_match
        THEN [kind |-> "skip"]                 \* line 166: continue
        ELSE IF ~({"lat", "lon"} \subseteq DOMAIN element)
        THEN [kind |-> "raise"]                \* line 179: KeyError
        ELSE [kind |-> "append",
              entry |-> [name |-> tags.name.text,
                         lat  |-> element.lat,
                         lng  |-> element.lon,
                         type |-> category,
                         desc |-> Desc(category, detected_type),
                         link |-> Link(tags.name.text)]]

\* results.insert(0, ...) in place of append
AppendResult_Prepend(results, entry) == <<entry>> \o results

\* line 179: results.append(...)
AppendResult(results, entry) == Append(results, entry)

\* A loop that skips only the element whose pass raised
RECURSIVE Loop_SkipsRaising(_, _, _, _, _)
Loop_SkipsRaising(category, elements, cuisine_filter, i, results) ==
    IF i > Len(elements)
    THEN [raised |-> FALSE, results |-> results]
    ELSE LET step == ProcessElement(category, elements[i], cuisine_filter) IN
         IF step.kind = "append"
         THEN Loop_SkipsRaising(category, elements, cuisine_filter, i + 1,
                                AppendResult(results, step.entry))
         ELSE Loop_SkipsRaising(category, elements, cuisine_filter, i + 1, results)

\* lines 152-180: the loop over data['elements'] from element i on
RECURSIVE Loop(_, _, _, _, _)
Loop(category, elements, cuisine_filter, i, results) ==
    IF i > Len(elements)
    THEN [raised |-> FALSE, results |-> results]
    ELSE LET step == ProcessElement(category, elements[i], cuisine_filter) IN
         CASE step.kind = "raise"  -> [raised |-> TRUE, results |-> results]
           [] step.kind = "skip"   -> Loop(category, elements, cuisine_filter, i + 1, results)
           [] step.kind = "append" -> Loop(category, elements, cuisine_filter, i + 1,
                                           AppendResult(results, step.entry))

\* lines 135-138: the categories that have an Overpass tag
KnownCategory(category) == category \in {"restaurant", "hotel", "tourism"}

\* lines 133-181: what get_osm_places returns for a response of the Overpass
\* service.  response.kind: "error" (requests.get raised: network, timeout),
\* "not_json" (response.json() raised), "no_elements" (no 'elements' key),
\* "ok" (a JSON object with an 'elements' list).
get_osm_places(category, response, cuisine_filter) ==
    IF ~KnownCategory(category) THEN <<>>                         \* line 138
    ELSE IF response.kind # "ok" THEN <<>>                        \* line 181
    ELSE LET run == Loop(category, response.elements, cuisine_filter, 1, <<>>) IN
         IF run.raised THEN <<>>                                  \* line 181
         ELSE run.results                                         \* line 180

----------------------------------------------------------------------------
(* Inputs of get_osm_places *)

\* Sequences over S of length at most n
SeqsUpTo(S, n) == UNION {[1..k -> S] : k \in 0..n}

\* Elements an Overpass response may carry: sparse tag maps, an empty name,
\* upper-case and multi-keyword cuisine values, a keyword inside a longer
\* word ("caucasian"), and elements that make the loop body raise.
ElementCatalogue ==
    { \* no tag map at all
      [lat |-> 1, lon |-> 1],
      \* a tag map without a name
      [lat |-> 2, lon |-> 2,
       tags |-> [cuisine |-> [text |-> <<"k","o","r","e","a","n">>]]],
      \* the name tag is present and empty
      [lat |-> 3, lon |-> 3,
       tags |-> [name |-> [text |-> <<>>],
                 cuisine |-> [text |-> <<"k","o","r","e","a","n">>]]],
      [lat |-> 4, lon |-> 4,
       tags |-> [name |-> [text |-> <<"K","i","m"," ","s">>],
                 cuisine |-> [text |-> <<"k","o","r","e","a","n",";","p","i","z","z","a">>]]],
      [lat |-> 5, lon |-> 5,
       tags |-> [name |-> [text |-> <<"M","a","r","i","o">>],
                 cuisine |-> [text |-> <<"I","t","a","l","i","a","n">>]]],
      \* no cuisine tag
      [lat |-> 6, lon |-> 6,
       tags |-> [name |-> [text |-> <<"N","o","T","a","g">>]]],
      \* a Cafe keyword first in the value, an Asian keyword inside a word
      [lat |-> 7, lon |-> 7,
       tags |-> [name |-> [text |-> <<"A","r","o","m","a">>],
                 cuisine |-> [text |-> <<"c","o","f","f","e","e","_","s","h","o","p",";",
                                         "c","a","u","c","a","s","i","a","n">>]]],
      \* a named node without coordinates
      [tags |-> [name |-> [text |-> <<"L","o","s","t">>],
                 cuisine |-> [text |-> <<"s","u","s","h","i">>]]],
      \* a cuisine value that is not text
      [lat |-> 9, lon |-> 9,
       tags |-> [name |-> [text |-> <<"O","d","d">>],
                 cuisine |-> [num |-> 7]]] }

OverpassResponses ==
    {[kind |-> "error"], [kind |-> "not_json"], [kind |-> "no_elements"]}
    \cup {[kind |-> "ok", elements |-> es] : es \in SeqsUpTo(ElementCatalogue, MaxElements)}

\* line 311: the options of the multiselect
cuisine_options ==
    {"Jeonche", "Hansik", "Yangsik", "Ilsik", "Jungsik", "Asian", "Cafe", "Gita"}

\* The options the model's user picks from
PickedOptions == {"Jeonche", "Hansik", "Yangsik", "Gita"}

\* The cuisine_filter argument: None (the default), or the multiselect's list
\* of distinct options in the order they were picked
CuisineFilters ==
    {[isNone |-> TRUE, items |-> <<>>]}
    \cup {[isNone |-> FALSE, items |-> s] :
            s \in {t \in SeqsUpTo(PickedOptions, MaxFilterLen) :
                     \A i, j \in 1..Len(t) : i # j => t[i] # t[j]}}

\* The three categories the page asks for, and one get_osm_places does not know
Categories == {"restaurant", "hotel", "tourism", "shop"}

\* Nothing was asked of the service
NotContacted == [kind |-> "none"]

----------------------------------------------------------------------------
(* Tables (pandas.DataFrame): the column names and the rows, a row being the
   sequence of its cells in column order *)

\* pd.DataFrame()
EmptyTable == [columns |-> <<>>, rows |-> <<>>]

\* DataFrame.empty: an axis of length 0
IsEmpty(df) == Len(df.columns) = 0 \/ Len(df.rows) = 0

----------------------------------------------------------------------------
(* search_location *)

\* line 189: float(text); a text that is no number raises ValueError
FloatRaises(v) == "float" \notin DOMAIN v

\* lines 183-191.  response.kind: "error" (requests.get raised), "not_json"
\* (.json() raised), "ok" with res the decoded body: [list |-> hits] or an
\* object [object |-> ...] (the service's error document).
search_location(response) ==
    IF response.kind # "ok" THEN [none |-> TRUE]                   \* line 190
    ELSE LET res == response.res IN
         IF "list" \notin DOMAIN res THEN [none |-> TRUE]          \* res[0]: KeyError
         ELSE IF Len(res.list) = 0 THEN [none |-> TRUE]            \* `if res` is false
         ELSE LET hit == res.list[1] IN
              IF ~({"lat", "lon", "display_name"} \subseteq DOMAIN hit)
              THEN [none |-> TRUE]                                 \* KeyError
              ELSE IF FloatRaises(hit.lat) \/ FloatRaises(hit.lon)
              THEN [none |-> TRUE]                                 \* ValueError
              ELSE [lat |-> hit.lat.float, lng |-> hit.lon.float,
                    name |-> hit.display_name]

GeocoderResponses ==
    {[kind |-> "error"], [kind |-> "not_json"],
     [kind |-> "ok", res |-> [object |-> "error"]],
     [kind |-> "ok", res |-> [list |-> <<>>]],
     [kind |-> "ok", res |-> [list |-> << [lat |-> [float |-> 52], lon |-> [float |-> 13],
                                           display_name |-> "Kreuzberg, Berlin"] >>]],
     [kind |-> "ok", res |-> [list |-> << [lat |-> [float |-> 52], lon |-> [float |-> 13]] >>]],
     [kind |-> "ok", res |-> [list |-> << [lat |-> [junk |-> "n/a"], lon |-> [float |-> 13],
                                           display_name |-> "Kreuzberg, Berlin"] >>]]}

----------------------------------------------------------------------------
(* get_gemini_response *)

\* lines 193-199.  api_key: GEMINI_API_KEY is set (line 23).  response.kind:
\* "error" (GenerativeModel / generate_content raised), "blocked"
\* (response.text raised), "ok" with the answer's text.
get_gemini_response(api_key, response) ==
    IF ~api_key THEN "API_ki_hwagin"                               \* line 194
    ELSE IF response.kind # "ok" THEN "AI_seobiseu_oryu"           \* line 199
    ELSE response.text                                             \* line 198

GeminiResponses ==
    {[kind |-> "error"], [kind |-> "blocked"], [kind |-> "ok", text |-> "Try Mauerpark."]}

----------------------------------------------------------------------------
(* get_exchange_data *)

\* line 49: the fallback rate, 1450.0
DefaultRate == 1450

\* lines 37-49.  quotes.current / quotes.hist: what ticker.history gives for
\* period 1d / 1mo: [kind |-> "raise"], or [kind |-> "table", close |-> the
\* Close column]
get_exchange_data(quotes) ==
    IF quotes.current.kind = "raise"
    THEN [rate |-> DefaultRate, hist |-> <<>>]
    ELSE IF Len(quotes.current.close) = 0                          \* .iloc[-1]: IndexError
    THEN [rate |-> DefaultRate, hist |-> <<>>]
    ELSE IF quotes.hist.kind = "raise"
    THEN [rate |-> DefaultRate, hist |-> <<>>]
    ELSE [rate |-> quotes.current.close[Len(quotes.current.close)],
          hist |-> quotes.hist.close]

QuoteTables ==
    {[kind |-> "raise"], [kind |-> "table", close |-> <<>>],
     [kind |-> "table", close |-> <<1448, 1452>>]}

ExchangeResponses == {[current |-> c, hist |-> h] : c \in QuoteTables, h \in QuoteTables}

----------------------------------------------------------------------------
(* get_weather_forecast *)

\* line 70: the default reading
DefaultReading == [temperature |-> 15, weathercode |-> 0]

\* lines 63-67: pd.DataFrame of three lists; lists of different lengths raise
ForecastRaises(daily) ==
    \/ ~({"time", "temperature_2m_max", "temperature_2m_min"} \subseteq DOMAIN daily)
    \/ Len(daily.time) # Len(daily.temperature_2m_max)
    \/ Len(daily.time) # Len(daily.temperature_2m_min)

\* lines 53-70.  response.kind: "error", "not_json", "ok" with data the decoded
\* body.  The reading data['current_weather'] is returned as it came.
get_weather_forecast(response) ==
    IF response.kind # "ok"
    THEN [current |-> DefaultReading, forecast |-> EmptyTable]
    ELSE LET data == response.data IN
         IF ~({"current_weather", "daily"} \subseteq DOMAIN data)  \* KeyError
         THEN [current |-> DefaultReading, forecast |-> EmptyTable]
         ELSE IF ForecastRaises(data.daily)
         THEN [current |-> DefaultReading, forecast |-> EmptyTable]
         ELSE [current |-> data.current_weather,
               forecast |->
                 [columns |-> <<"Date", "Max Temp", "Min Temp">>,
                  rows |-> [i \in 1..Len(data.daily.time) |->
                              <<data.daily.time[i],
                                data.daily.temperature_2m_max[i],
                                data.daily.temperature_2m_min[i]>>]]]

\* line 275: the page reads w_curr['temperature']
ReadingRaises(w_curr) == "temperature" \notin DOMAIN w_curr

WeatherBodies ==
    LET reading == [temperature |-> 12, weathercode |-> 3]
        daily == [time |-> <<1, 2>>, temperature_2m_max |-> <<20, 21>>,
                  temperature_2m_min |-> <<10, 11>>]
    IN {[current_weather |-> reading, daily |-> daily],
        [current_weather |-> reading,
         daily |-> [time |-> <<>>, temperature_2m_max |-> <<>>, temperature_2m_min |-> <<>>]],
        \* the service's error document
        [error |-> TRUE, reason |-> "bad request"],
        [current_weather |-> reading],
        [daily |-> daily],
        [current_weather |-> reading,
         daily |-> [time |-> <<1, 2>>, temperature_2m_max |-> <<20, 21>>]],
        [current_weather |-> reading,
         daily |-> [time |-> <<1, 2>>, temperature_2m_max |-> <<20>>,
                    temperature_2m_min |-> <<10, 11>>]],
        \* a reading without its temperature
        [current_weather |-> [weathercode |-> 3], daily |-> daily]}

WeatherResponses ==
    {[kind |-> "error"], [kind |-> "not_json"]}
    \cup {[kind |-> "ok", data |-> d] : d \in WeatherBodies}

----------------------------------------------------------------------------
(* load_crime_data_excel *)

\* line 76: str(c).replace('\n', ' ')
ReplaceNewlines(s) == [i \in 1..Len(s) |-> IF s[i] = "\n" THEN " " ELSE s[i]]

\* line 76: str.strip()
RECURSIVE Strip(_)
Strip(s) ==
    IF Len(s) > 0 /\ s[1] = " " THEN Strip(SubSeq(s, 2, Len(s)))
    ELSE IF Len(s) > 0 /\ s[Len(s)] = " " THEN Strip(SubSeq(s, 1, Len(s) - 1))
    ELSE s

Bezeichnung == <<"B","e","z","e","i","c","h","n","u","n","g">>
Straftaten  == <<"S","t","r","a","f","t","a","t","e","n">>
insgesamt   == <<"i","n","s","g","e","s","a","m","t">>
LOR         == <<"L","O","R">>
District    == <<"D","i","s","t","r","i","c","t">>
Total_Crime == <<"T","o","t","a","l","_","C","r","i","m","e">>

\* line 81
IsDistrictColumn(c) == Contains(Bezeichnung, c)

\* line 82
IsTotalColumn(c) == Contains(Straftaten, c) /\ Contains(insgesamt, c)

\* lines 80-82: the loop keeps the last column that passes its test (passes[i]
\* for column i); 0 is None
LastColumn(passes) ==
    IF \E i \in 1..Len(passes) : passes[i]
    THEN CHOOSE i \in 1..Len(passes) :
            /\ passes[i]
            /\ \A j \in (i + 1)..Len(passes) : ~passes[j]
    ELSE 0

\* lines 86-90
berlin_districts ==
    {"Mitte", "Friedrichshain-Kreuzberg", "Pankow", "Charlottenburg-Wilmersdorf",
     "Spandau", "Steglitz-Zehlendorf", "Tempelhof-Schoeneberg", "Neukoelln",
     "Treptow-Koepenick", "Marzahn-Hellersdorf", "Lichtenberg", "Reinickendorf"}

\* line 91: isin(berlin_districts).  A cell is [text |-> t] or [int |-> n].
IsBerlinDistrict(cell) == "text" \in DOMAIN cell /\ cell.text \in berlin_districts

\* lines 94-95, 99-100: astype(str), '.' removed, to_numeric(errors='coerce'),
\* fillna(0): an integer cell keeps its value, a text that is no number gives 0
ToNumeric(cell) == IF "int" \in DOMAIN cell THEN cell ELSE [int |-> 0]

\* lines 93-95: with a total column, the column Total_Crime is added
WithTotalCrime(df, total_col) ==
    IF total_col = 0 THEN df
    ELSE [columns |-> Append(df.columns, Total_Crime),
          rows |-> [r \in 1..Len(df.rows) |->
                      Append(df.rows[r], ToNumeric(df.rows[r][total_col]))]]

\* lines 97-100: every column but the district column and the LOR key is
\* made numeric
CleanColumns(df, district_col) ==
    [columns |-> df.columns,
     rows |-> [r \in 1..Len(df.rows) |->
                 [c \in 1..Len(df.columns) |->
                    IF c # district_col /\ ~Contains(LOR, df.columns[c])
                    THEN ToNumeric(df.rows[r][c])
                    ELSE df.rows[r][c]]]]

\* line 102: rename(columns={district_col: 'District'})
RenameDistrict(df, district_col) ==
    [columns |-> [c \in 1..Len(df.columns) |->
                    IF c = district_col THEN District ELSE df.columns[c]],
     rows |-> df.rows]

\* lines 73-105.  file.kind: "unreadable" (read_excel raised: no file, no
\* sheet, not a workbook), "sheet" with the header row and the data rows.
load_crime_data_excel(file) ==
    IF file.kind # "sheet" THEN EmptyTable                         \* line 105
    ELSE
      LET columns == [i \in 1..Len(file.columns) |->
                        Strip(ReplaceNewlines(file.columns[i]))]
          district_col ==
              LastColumn([i \in 1..Len(columns) |-> IsDistrictColumn(columns[i])])
          total_col ==
              LastColumn([i \in 1..Len(columns) |-> IsTotalColumn(columns[i])])
      IN
      IF district_col = 0 THEN EmptyTable                          \* line 84
      ELSE
        LET InBerlin(row) == IsBerlinDistrict(row[district_col])
            df == [columns |-> columns, rows |-> SelectSeq(file.rows, InBerlin)]
        IN RenameDistrict(CleanColumns(WithTotalCrime(df, total_col), district_col),
                          district_col)

\* lines 329-334 and 398-402: folium.Choropleth(data=crime_df,
\* columns=["District", "Total_Crime"]) reads both columns
ChoroplethRaises(crime_df) ==
    ~({District, Total_Crime} \subseteq Range(crime_df.columns))

\* lines 502-503: df_stat['Total_Crime'] and ...['District']
StatisticsRaise(df_stat) ==
    ~({District, Total_Crime} \subseteq Range(df_stat.columns))

\* Header rows of the workbook
HeaderRows ==
    { \* the published layout
      << <<"L","O","R","-","S","c","h","l","u","e","s","s","e","l"," ",
           "(","B","e","z","i","r","k","s","r","e","g","i","o","n",")">>,
         <<"B","e","z","e","i","c","h","n","u","n","g"," ",
           "(","B","e","z","i","r","k","s","r","e","g","i","o","n",")">>,
         <<"S","t","r","a","f","t","a","t","e","n","\n",
           "-","i","n","s","g","e","s","a","m","t","-"," ">>,
         <<"R","a","u","b">> >>,
      \* a district column and no total column
      << <<"B","e","z","e","i","c","h","n","u","n","g"," ",
           "(","B","e","z","i","r","k","s","r","e","g","i","o","n",")">>,
         <<"R","a","u","b">>,
         <<"D","i","e","b","s","t","a","h","l"," ",
           "-","i","n","s","g","e","s","a","m","t","-">> >>,
      \* no district column
      << <<"R","a","u","b">>,
         <<"S","t","r","a","f","t","a","t","e","n","\n",
           "-","i","n","s","g","e","s","a","m","t","-"," ">> >> }

\* The district cells of the rows: two districts and the city's total row
DistrictCells == {"Mitte", "Pankow", "Berlin (PKS gesamt)"}

\* The data rows under a header row: a text in the district columns, a count
\* in the others
RowsUnder(columns) ==
    {[c \in 1..Len(columns) |->
        IF Contains(Bezeichnung, columns[c]) THEN [text |-> d] ELSE [int |-> n]] :
     d \in DistrictCells, n \in {3, 5}}

CrimeFiles ==
    {[kind |-> "unreadable"]}
    \cup UNION {{[kind |-> "sheet", columns |-> h, rows |-> rs] :
                   rs \in SeqsUpTo(RowsUnder(h), MaxRows)} : h \in HeaderRows}

----------------------------------------------------------------------------
(* The page: each part calls its wrapper and consumes what it returned *)

NoArgs == [none |-> TRUE]

\* lines 343, 354, 365: the calls of get_osm_places with what Overpass
\* answers; a category without an Overpass tag never reaches the service
PlaceCalls ==
    {[op |-> "get_osm_places",
      args |-> [category |-> category, cuisine_filter |-> cuisine_filter],
      upstream |-> response] :
        category \in {c \in Categories : KnownCategory(c)},
        cuisine_filter \in CuisineFilters,
        response \in OverpassResponses}
    \cup
    {[op |-> "get_osm_places",
      args |-> [category |-> category, cuisine_filter |-> cuisine_filter],
      upstream |-> NotContacted] :
        category \in {c \in Categories : ~KnownCategory(c)},
        cuisine_filter \in CuisineFilters}

\* line 292
SearchCalls ==
    {[op |-> "search_location", args |-> [query |-> "Kreuzberg Berlin"],
      upstream |-> response] : response \in GeocoderResponses}

\* line 486; without an API key the service is not asked
GeminiCalls ==
    {[op |-> "get_gemini_response", args |-> [prompt |-> "Where to?", api_key |-> TRUE],
      upstream |-> response] : response \in GeminiResponses}
    \cup
    {[op |-> "get_gemini_response", args |-> [prompt |-> "Where to?", api_key |-> FALSE],
      upstream |-> NotContacted]}

\* line 265
ExchangeCalls ==
    {[op |-> "get_exchange_data", args |-> NoArgs, upstream |-> quotes] :
        quotes \in ExchangeResponses}

\* line 274
WeatherCalls ==
    {[op |-> "get_weather_forecast", args |-> NoArgs, upstream |-> response] :
        response \in WeatherResponses}

\* lines 326, 496: the crime layer of the map (when show_crime is ticked) and
\* the statistics tab read the same table
CrimeCalls ==
    {[op |-> "load_crime_data_excel", args |-> [show_crime |-> show_crime],
      upstream |-> file] : show_crime \in BOOLEAN, file \in CrimeFiles}

\* line 259: the first map centre, [52.5200, 13.4050], in 1/100 degree (no
\* geocoder hit of the model lies there)
BerlinCenter == <<5252, 1341>>

Init ==
    /\ pc = "idle"
    /\ op = "none"
    /\ args = NoArgs
    /\ upstream = NotContacted
    /\ ret = <<>>
    /\ page_error = FALSE
    /\ cache = <<>>
    /\ log = <<>>
    /\ session_state = [reviews         |-> <<>>,
                        recommendations |-> <<>>,
                        messages        |-> <<>>,
                        map_center      |-> BerlinCenter,
                        search_marker   |-> [none |-> TRUE]]

\* lines 345-351, 356-362, 367-373: one marker per entry, built from the
\* entry's keys; a missing key raises
MarkersRaise(places) ==
    \E i \in 1..Len(places) :
        ~({"name", "desc", "link", "lat", "lng"} \subseteq DOMAIN places[i])

\* lines 342-373: a category's layer: get_osm_places, then its markers
PlaceMarkers ==
    /\ pc = "idle"
    /\ \E c \in PlaceCalls :
        op' = c.op /\ args' = c.args /\ upstream' = c.upstream
    /\ ret' = get_osm_places(args'.category, upstream', args'.cuisine_filter)
    /\ page_error' = MarkersRaise(ret')
    /\ pc' = "done"
    /\ UNCHANGED <<cache, log, session_state>>

\* lines 291-296: the search box
SearchBox ==
    /\ pc = "idle"
    /\ \E c \in SearchCalls :
        op' = c.op /\ args' = c.args /\ upstream' = c.upstream
    /\ ret' = search_location(upstream')
    /\ page_error' = FALSE
    /\ pc' = "done"
    /\ UNCHANGED <<cache, log, session_state>>

\* lines 482-488: a chat prompt and its answer
ChatTurn ==
    /\ pc = "idle"
    /\ \E c \in GeminiCalls :
        op' = c.op /\ args' = c.args /\ upstream' = c.upstream
    /\ ret' = get_gemini_response(args'.api_key, upstream')
    /\ page_error' = FALSE
    /\ pc' = "done"
    /\ UNCHANGED <<cache, log, session_state>>

\* lines 264-271: the exchange-rate panel
ExchangePanel ==
    /\ pc = "idle"
    /\ \E c \in ExchangeCalls :
        op' = c.op /\ args' = c.args /\ upstream' = c.upstream
    /\ ret' = get_exchange_data(upstream')
    /\ page_error' = FALSE
    /\ pc' = "done"
    /\ UNCHANGED <<cache, log, session_state>>

\* lines 273-281: the weather panel; line 275 reads the reading's temperature
WeatherPanel ==
    /\ pc = "idle"
    /\ \E c \in WeatherCalls :
        op' = c.op /\ args' = c.args /\ upstream' = c.upstream
    /\ ret' = get_weather_forecast(upstream')
    /\ page_error' = ReadingRaises(ret'.current)
    /\ pc' = "done"
    /\ UNCHANGED <<cache, log, session_state>>

\* lines 325-334 and 496-503: the crime layer and the statistics tab
CrimeViews ==
    /\ pc = "idle"
    /\ \E c \in CrimeCalls :
        op' = c.op /\ args' = c.args /\ upstream' = c.upstream
    /\ ret' = load_crime_data_excel(upstream')
    /\ page_error' =
          \/ args'.show_crime /\ ~IsEmpty(ret') /\ ChoroplethRaises(ret')
          \/ ~IsEmpty(ret') /\ StatisticsRaise(ret')
    /\ pc' = "done"
    /\ UNCHANGED <<cache, log, session_state>>

Next ==
    \/ PlaceMarkers
    \/ SearchBox
    \/ ChatTurn
    \/ ExchangePanel
    \/ WeatherPanel
    \/ CrimeViews

Spec == Init /\ [][Next]_vars

----------------------------------------------------------------------------
(* The runs of one session: the memoized get_osm_places and the map centre *)

\* The calls of get_osm_places a session makes in the model
MaxCalls == 3

\* A cache that keeps no empty list
CacheStore_SkipsEmpty(memo, key, value) ==
    IF value = <<>> THEN memo ELSE (key :> value) @@ memo

\* line 132: st.cache_data keeps the value the function returned under the
\* arguments of the call; the decorator is given no ttl and no max_entries
CacheStore(memo, key, value) == (key :> value) @@ memo

\* What Overpass may answer in a session: a failure, no element, one place
MemoResponses ==
    {[kind |-> "error"], [kind |-> "ok", elements |-> <<>>]}
    \cup {[kind |-> "ok", elements |-> <<e>>] :
            e \in {x \in ElementCatalogue :
                     HasName(x) /\ x.tags.name.text = <<"M","a","r","i","o">>}}

\* line 312: what the multiselect holds in the model (its default, one bucket)
SelectedCuisines ==
    {[isNone |-> FALSE, items |-> <<"Jeonche">>],
     [isNone |-> FALSE, items |-> <<"Hansik">>]}

\* What the geocoder answers in a session: a failure or the hit
SessionGeocoderResponses ==
    {r \in GeocoderResponses :
        r.kind = "error" \/ "none" \notin DOMAIN search_location(r)}

\* lines 132-133, 343, 354, 365: a call of the memoized get_osm_places at the
\* map centre. A tuple of arguments the cache holds is answered from the
\* cache; otherwise the function runs (one request, line 142) and what it
\* returns is stored. Lines 345-351: the markers of the places.
PlacesLayer(category, cuisine_filter) ==
    LET center == session_state.map_center
        key == [category |-> category, lat |-> center[1], lng |-> center[2],
                radius_m |-> 3000, cuisine_filter |-> cuisine_filter]
    IN
    /\ pc \in {"idle", "done"}
    /\ Len(log) < MaxCalls
    /\ op' = "get_osm_places"
    /\ args' = key
    /\ IF key \in DOMAIN cache
       THEN /\ upstream' = NotContacted
            /\ ret' = cache[key]
            /\ cache' = cache
       ELSE /\ \E response \in MemoResponses : upstream' = response
            /\ ret' = get_osm_places(category, upstream', cuisine_filter)
            /\ cache' = CacheStore(cache, key, ret')
    /\ log' = Append(log, [key |-> key, response |-> upstream', ret |-> ret'])
    /\ page_error' = MarkersRaise(ret')
    /\ pc' = "done"
    /\ UNCHANGED session_state

\* lines 342-351: show_food is ticked
FoodLayer == \E cuisine_filter \in SelectedCuisines : PlacesLayer("restaurant", cuisine_filter)

\* lines 353-362: show_hotel is ticked; cuisine_filter keeps its default, None
HotelLayer == PlacesLayer("hotel", [isNone |-> TRUE, items |-> <<>>])

\* lines 364-373: show_tour is ticked
TourLayer == PlacesLayer("tourism", [isNone |-> TRUE, items |-> <<>>])

\* lines 291-296: a search; a hit moves the map centre and sets the marker
SessionSearch ==
    /\ pc \in {"idle", "done"}
    /\ op' = "search_location"
    /\ args' = [query |-> "Kreuzberg Berlin"]
    /\ \E response \in SessionGeocoderResponses : upstream' = response
    /\ ret' = search_location(upstream')
    /\ session_state' =
          IF "none" \in DOMAIN ret' \/ ret'.lat = 0                 \* line 293
          THEN session_state
          ELSE [session_state EXCEPT !.map_center = <<ret'.lat, ret'.lng>>,
                                     !.search_marker = ret']
    /\ page_error' = FALSE
    /\ pc' = "done"
    /\ UNCHANGED <<cache, log>>

NextMemo ==
    \/ FoodLayer
    \/ HotelLayer
    \/ TourLayer
    \/ SessionSearch

SpecMemo == Init /\ [][NextMemo]_vars

----------------------------------------------------------------------------
(* The runs of one session: the community board and the chat *)

\* The prompts a session submits in the model
MaxPrompts == 2

\* The reviews, recommendations and replies a session submits in the model
MaxPosts == 2

\* line 435: two of the places of the courses
ReviewPlaces == {"Mauerpark", "East Side Gallery"}

\* What the user types into a form of the board
PostTexts == {"nice"}

\* The position of the page is between two runs
BetweenRuns == pc \in {"idle", "done"}

\* The reviews, recommendations and replies posted so far
RECURSIVE SumOver(_, _)
SumOver(f, S) ==
    IF S = {} THEN 0
    ELSE LET x == CHOOSE y \in S : TRUE IN Len(f[x]) + SumOver(f, S \ {x})

Posts ==
    SumOver(session_state.reviews, DOMAIN session_state.reviews)
    + Len(session_state.recommendations)
    + SumOver([i \in DOMAIN session_state.recommendations |->
                  session_state.recommendations[i].replies],
              DOMAIN session_state.recommendations)

\* lines 438-440: a place is selected in the review box; its list is created
ReviewPlaceSelected ==
    /\ BetweenRuns
    /\ \E target_place \in ReviewPlaces :
          /\ target_place \notin DOMAIN session_state.reviews
          /\ session_state' =
                [session_state EXCEPT !.reviews = (target_place :> <<>>) @@ @]
    /\ UNCHANGED <<pc, op, args, upstream, ret, page_error, cache, log>>

\* lines 442-446: the review form of the selected place is submitted
ReviewSubmit ==
    /\ BetweenRuns
    /\ Posts < MaxPosts
    /\ \E target_place \in DOMAIN session_state.reviews, rv_text \in PostTexts :
          session_state' =
             [session_state EXCEPT !.reviews[target_place] = Append(@, rv_text)]
    /\ UNCHANGED <<pc, op, args, upstream, ret, page_error, cache, log>>

\* lines 456-461: the recommendation form is submitted
RecommendSubmit ==
    /\ BetweenRuns
    /\ Posts < MaxPosts
    /\ \E name \in ReviewPlaces, reason \in PostTexts :
          session_state' =
             [session_state EXCEPT !.recommendations =
                 <<[place |-> name, desc |-> reason, replies |-> <<>>]>> \o @]
    /\ UNCHANGED <<pc, op, args, upstream, ret, page_error, cache, log>>

\* lines 471-474: a reply is posted under recommendation i
ReplySubmit ==
    /\ BetweenRuns
    /\ Posts < MaxPosts
    /\ \E i \in 1..Len(session_state.recommendations), r_text \in PostTexts :
          session_state' =
             [session_state EXCEPT !.recommendations[i].replies = Append(@, r_text)]
    /\ UNCHANGED <<pc, op, args, upstream, ret, page_error, cache, log>>

\* lines 482-484: a prompt is submitted; the run appends the user message and
\* writes it into the chat box
ChatPrompt ==
    /\ BetweenRuns
    /\ Len(SelectSeq(session_state.messages, LAMBDA msg : msg.role = "user")) < MaxPrompts
    /\ \E api_key \in BOOLEAN :
          args' = [prompt |-> "Where to?", api_key |-> api_key]
    /\ session_state' =
          [session_state EXCEPT !.messages =
              Append(@, [role |-> "user", content |-> args'.prompt])]
    /\ op' = "get_gemini_response"
    /\ upstream' = NotContacted
    /\ ret' = <<>>
    /\ page_error' = FALSE
    /\ pc' = "asked"
    /\ UNCHANGED <<cache, log>>

\* lines 485-488: the answer of get_gemini_response is written and appended
ChatAnswer ==
    /\ pc = "asked"
    /\ IF args.api_key
       THEN \E response \in GeminiResponses : upstream' = response
       ELSE upstream' = NotContacted
    /\ ret' = get_gemini_response(args.api_key, upstream')
    /\ session_state' =
          [session_state EXCEPT !.messages =
              Append(@, [role |-> "assistant", content |-> ret'])]
    /\ pc' = "done"
    /\ UNCHANGED <<op, args, page_error, cache, log>>

\* lines 484-487: the user acts on a widget while the run of the prompt is
\* still going (the answer is awaited at line 486). Streamlit stops a running
\* script at its next st.* call (chat_message, st.write) to start the new run,
\* so line 488 is not reached
RunStopped ==
    /\ pc = "asked"
    /\ pc' = "idle"
    /\ UNCHANGED <<op, args, upstream, ret, page_error, cache, log, session_state>>

NextChat ==
    \/ ReviewPlaceSelected
    \/ ReviewSubmit
    \/ RecommendSubmit
    \/ ReplySubmit
    \/ SessionSearch
    \/ ChatPrompt
    \/ ChatAnswer
    \/ RunStopped

SpecChat == Init /\ [][NextChat]_vars

----------------------------------------------------------------------------
(* Vocabulary of the properties of get_osm_places *)

\* get_osm_places has returned
PlacesReturned == pc = "done" /\ op = "get_osm_places"

\* The element carries a name tag (the key is present)
HasNameTag(e) == "tags" \in DOMAIN e /\ "name" \in DOMAIN e.tags

\* The response is a list of POI records: every element with a name tag has
\* coordinates, and its cuisine tag, when present, is text
IsRecordList(response) ==
    /\ response.kind = "ok"
    /\ \A i \in 1..Len(response.elements) :
          LET e == response.elements[i] IN
          HasNameTag(e) =>
             /\ {"lat", "lon"} \subseteq DOMAIN e
             /\ ("cuisine" \in DOMAIN e.tags => "text" \in DOMAIN e.tags.cuisine)

\* The raw cuisine value of a record ("general" when it has no cuisine tag)
CuisineOf(e) ==
    IF "cuisine" \in DOMAIN e.tags THEN e.tags.cuisine.text
    ELSE <<"g","e","n","e","r","a","l">>

\* The fixed priority order of the buckets
FixedOrder == <<"Hansik", "Yangsik", "Ilsik", "Jungsik", "Asian", "Cafe">>

\* Bucket b has a keyword that is a substring of the lowercased cuisine value
BucketMatches(b, cuisine) ==
    \E k \in 1..Len(cuisine_map[b]) : Contains(cuisine_map[b][k], Lower(cuisine))

\* The detected bucket of a cuisine value: the first bucket of the fixed order
\* that matches, "기타" when none does
DetectedBucket(cuisine) ==
    IF \E k \in 1..Len(FixedOrder) : BucketMatches(FixedOrder[k], cuisine)
    THEN FixedOrder[CHOOSE k \in 1..Len(FixedOrder) :
                       /\ BucketMatches(FixedOrder[k], cuisine)
                       /\ \A j \in 1..(k - 1) : ~BucketMatches(FixedOrder[j], cuisine)]
    ELSE "Gita"

\* Entry x was derived from element e
DerivesFrom(x, e) ==
    /\ HasNameTag(e)
    /\ {"lat", "lon"} \subseteq DOMAIN e
    /\ x.name = e.tags.name.text
    /\ x.lat = e.lat
    /\ x.lng = e.lon

\* Name and coordinates of the elements, in order
KeysOfElements(es) ==
    [i \in 1..Len(es) |-> <<es[i].tags.name.text, es[i].lat, es[i].lon>>]

\* Name and coordinates of the entries, in order
KeysOfEntries(entries) ==
    [i \in 1..Len(entries) |-> <<entries[i].name, entries[i].lat, entries[i].lng>>]

\* The selections of the filter of this call
Selected == Range(args.cuisine_filter.items)

\* The call's filter is active and holds buckets only (neither 전체 nor 기타)
BucketFilter ==
    /\ ~args.cuisine_filter.isNone
    /\ Selected # {}
    /\ "Jeonche" \notin Selected
    /\ "Gita" \notin Selected

\* The call has no active filter: None, the empty list, or one holding 전체
NoActiveFilter ==
    \/ args.cuisine_filter.isNone
    \/ Selected = {}
    \/ "Jeonche" \in Selected

NoFilter == [isNone |-> TRUE, items |-> <<>>]

----------------------------------------------------------------------------
(* C1 *)

\* C1 (as claimed): for category restaurant and an active filter holding
\* buckets only, get_osm_places keeps a record with a name tag if and only if
\* its detected bucket (first match in the fixed order) is in the filter set.
C1_KeptIffDetectedBucketSelected ==
    (PlacesReturned /\ args.category = "restaurant" /\ BucketFilter
       /\ IsRecordList(upstream))
    => LET Keep(e) == HasNameTag(e) /\ DetectedBucket(CuisineOf(e)) \in Selected
       IN KeysOfEntries(ret) = KeysOfElements(SelectSeq(upstream.elements, Keep))

----------------------------------------------------------------------------
(* C2 *)

\* C2 (as claimed): the bucket in a restaurant's label depends only on the raw
\* cuisine value: whatever the filter, an output record is labelled with the
\* detected bucket of its cuisine value (so 'korean...' is always 한식).
C2_LabelIndependentOfFilter ==
    (PlacesReturned /\ args.category = "restaurant" /\ IsRecordList(upstream))
    => \A i \in 1..Len(ret) : \A j \in 1..Len(upstream.elements) :
          DerivesFrom(ret[i], upstream.elements[j])
          => ret[i].desc =
               <<"Eumsikjeom (", DetectedBucket(CuisineOf(upstream.elements[j])), ")">>

----------------------------------------------------------------------------
(* C3 *)

\* C3: for category restaurant, whenever the filter holds "기타", at any
\* position and with any other selections, get_osm_places returns every input
\* record that has a name tag, in order.
C3_GitaKeepsEveryNamedRecord ==
    (PlacesReturned /\ args.category = "restaurant" /\ "Gita" \in Selected
       /\ IsRecordList(upstream))
    => KeysOfEntries(ret) = KeysOfElements(SelectSeq(upstream.elements, HasNameTag))

\* "기타" is picked second, after a bucket, and a record whose detected bucket
\* is a non-Other bucket that is not selected is output
C3_Witness ==
    /\ PlacesReturned /\ args.category = "restaurant" /\ IsRecordList(upstream)
    /\ Len(args.cuisine_filter.items) = 2
    /\ args.cuisine_filter.items[2] = "Gita"
    /\ args.cuisine_filter.items[1] \in DOMAIN cuisine_map
    /\ \E i \in 1..Len(ret) : \E j \in 1..Len(upstream.elements) :
          /\ DerivesFrom(ret[i], upstream.elements[j])
          /\ DetectedBucket(CuisineOf(upstream.elements[j])) \notin Selected

----------------------------------------------------------------------------
(* C4 *)

\* C4: for category restaurant, a filter holding "전체" (alone or with other
\* selections), the empty filter and no filter (None) all give the same
\* output, and no record with a name tag is excluded.
C4_JeoncheSameAsNoFilter ==
    (PlacesReturned /\ args.category = "restaurant" /\ NoActiveFilter)
    => /\ ret = get_osm_places("restaurant", upstream, NoFilter)
       /\ ret = get_osm_places("restaurant", upstream, [isNone |-> FALSE, items |-> <<>>])
       /\ IsRecordList(upstream)
          => KeysOfEntries(ret) =
               KeysOfElements(SelectSeq(upstream.elements, HasNameTag))

\* "전체" is mixed with a bucket, and a record of another bucket is output
C4_Witness ==
    /\ PlacesReturned /\ args.category = "restaurant" /\ IsRecordList(upstream)
    /\ "Jeonche" \in Selected
    /\ Cardinality(Selected) = 2
    /\ \E i \in 1..Len(ret) : \E j \in 1..Len(upstream.elements) :
          /\ DerivesFrom(ret[i], upstream.elements[j])
          /\ DetectedBucket(CuisineOf(upstream.elements[j])) \notin Selected

----------------------------------------------------------------------------
(* C5 *)

----------------------------------------------------------------------------
(* C6 *)

\* C6: with no active filter a restaurant record is labelled with the first
\* bucket of the fixed order that has a keyword in its lowercased cuisine tag,
\* "기타" when none has or when it has no cuisine tag; hotel records are
\* always labelled 숙박시설 and tourism records 관광명소.
C6_LabelIsFirstMatch ==
    (PlacesReturned /\ IsRecordList(upstream))
    => \A i \in 1..Len(ret) : \A j \in 1..Len(upstream.elements) :
          LET e == upstream.elements[j] IN
          DerivesFrom(ret[i], e)
          => CASE args.category = "restaurant" /\ NoActiveFilter
                    -> ret[i].desc =
                         <<"Eumsikjeom (",
                           IF "cuisine" \in DOMAIN e.tags
                           THEN DetectedBucket(e.tags.cuisine.text)
                           ELSE "Gita",
                           ")">>
               [] args.category = "hotel"   -> ret[i].desc = <<"Sukbaksiseol">>
               [] args.category = "tourism" -> ret[i].desc = <<"Gwangwangmyeongso">>
               [] OTHER -> TRUE

\* A record whose cuisine matches 한식 and 양식 is labelled 한식
C6_Witness ==
    /\ PlacesReturned /\ args.category = "restaurant" /\ NoActiveFilter
    /\ IsRecordList(upstream)
    /\ \E i \in 1..Len(ret) : \E j \in 1..Len(upstream.elements) :
          /\ DerivesFrom(ret[i], upstream.elements[j])
          /\ BucketMatches("Yangsik", CuisineOf(upstream.elements[j]))
          /\ ret[i].desc = <<"Eumsikjeom (", "Hansik", ")">>

----------------------------------------------------------------------------
(* C7 *)

\* C7: for categories hotel and tourism the cuisine filter has no influence:
\* every filter gives the output that no filter gives, and it holds every
\* record with a name tag.
C7_FilterIgnoredForHotelTourism ==
    (PlacesReturned /\ args.category \in {"hotel", "tourism"})
    => /\ ret = get_osm_places(args.category, upstream, NoFilter)
       /\ IsRecordList(upstream)
          => KeysOfEntries(ret) =
               KeysOfElements(SelectSeq(upstream.elements, HasNameTag))

\* A hotel call under a bucket filter outputs a record of another bucket
C7_Witness ==
    /\ PlacesReturned /\ args.category = "hotel" /\ BucketFilter
    /\ IsRecordList(upstream)
    /\ \E i \in 1..Len(ret) : \E j \in 1..Len(upstream.elements) :
          /\ DerivesFrom(ret[i], upstream.elements[j])
          /\ DetectedBucket(CuisineOf(upstream.elements[j])) \notin Selected

----------------------------------------------------------------------------
(* C8 *)

\* C8: the output is a subsequence of the input: the entries derive from
\* input records at strictly increasing positions.
C8_OutputIsSubsequence ==
    PlacesReturned
    => IF upstream.kind = "ok"
       THEN LET es == upstream.elements IN
            \E f \in [1..Len(ret) -> 1..Len(es)] :
               /\ \A i, k \in 1..Len(ret) : i < k => f[i] < f[k]
               /\ \A i \in 1..Len(ret) : DerivesFrom(ret[i], es[f[i]])
       ELSE ret = <<>>

\* Two different records pass a bucket filter
C8_Witness ==
    /\ PlacesReturned /\ args.category = "restaurant" /\ BucketFilter
    /\ Len(ret) = 2
    /\ ret[1] # ret[2]

----------------------------------------------------------------------------
(* C9 *)

\* The weather body has what the API promises: a reading with its
\* temperature, and three daily lists of one length
WellFormedWeather(data) ==
    /\ {"current_weather", "daily"} \subseteq DOMAIN data
    /\ "temperature" \in DOMAIN data.current_weather
    /\ {"time", "temperature_2m_max", "temperature_2m_min"} \subseteq DOMAIN data.daily
    /\ Len(data.daily.time) = Len(data.daily.temperature_2m_max)
    /\ Len(data.daily.time) = Len(data.daily.temperature_2m_min)

\* The geocoder body is a list whose first hit, if any, has numeric
\* coordinates and a display name
WellFormedHits(res) ==
    /\ "list" \in DOMAIN res
    /\ Len(res.list) > 0 =>
          /\ {"lat", "lon", "display_name"} \subseteq DOMAIN res.list[1]
          /\ "float" \in DOMAIN res.list[1].lat
          /\ "float" \in DOMAIN res.list[1].lon

\* The call's upstream failed: a network error or timeout, a body that cannot
\* be decoded, or a decoded body that is malformed
UpstreamFailed ==
    CASE op = "get_osm_places" ->
            upstream.kind \in {"error", "not_json", "no_elements"}
      [] op = "search_location" ->
            \/ upstream.kind \in {"error", "not_json"}
            \/ upstream.kind = "ok" /\ ~WellFormedHits(upstream.res)
      [] op = "get_gemini_response" ->
            upstream.kind \in {"error", "blocked"}
      [] op = "get_exchange_data" ->
            upstream.current.kind = "raise" \/ upstream.hist.kind = "raise"
      [] op = "get_weather_forecast" ->
            \/ upstream.kind \in {"error", "not_json"}
            \/ upstream.kind = "ok" /\ ~WellFormedWeather(upstream.data)
      [] op = "load_crime_data_excel" ->
            upstream.kind = "unreadable"
      [] OTHER -> FALSE

\* The fixed fallback of each wrapper
FallbackOf(wrapper) ==
    CASE wrapper = "get_osm_places"        -> <<>>
      [] wrapper = "search_location"       -> [none |-> TRUE]
      [] wrapper = "get_gemini_response"   -> "AI_seobiseu_oryu"
      [] wrapper = "get_exchange_data"     -> [rate |-> 1450, hist |-> <<>>]
      [] wrapper = "get_weather_forecast"  ->
            [current |-> [temperature |-> 15, weathercode |-> 0],
             forecast |-> [columns |-> <<>>, rows |-> <<>>]]
      [] wrapper = "load_crime_data_excel" -> [columns |-> <<>>, rows |-> <<>>]

\* C9 (as claimed): every wrapper answers every upstream failure (network
\* error, malformed response, timeout) with its fixed fallback.
C9_FailureGivesFallback ==
    (pc = "done" /\ UpstreamFailed) => ret = FallbackOf(op)

----------------------------------------------------------------------------
(* C10 *)

\* C10 (as claimed): the crime data never breaks a page render: a non-empty
\* table returned by load_crime_data_excel has the columns District and
\* Total_Crime, so the layers and the statistics tab that read them do not
\* raise.
C10_CrimeTableNeverBreaksPage ==
    (pc = "done" /\ op = "load_crime_data_excel")
    => /\ ~page_error
       /\ ~IsEmpty(ret) => {District, Total_Crime} \subseteq Range(ret.columns)

----------------------------------------------------------------------------
(* C11 *)

\* The cuisine tag of a named element, when present, is text
TextCuisine(e) == "cuisine" \in DOMAIN e.tags => "text" \in DOMAIN e.tags.cuisine

\* A named element with a text cuisine passes the filter of this call: the
\* category is not filtered, the filter is not active, 기타 is selected, or a
\* selected bucket has a keyword in the cuisine value
PassesFilter(e) ==
    \/ args.category # "restaurant"
    \/ NoActiveFilter
    \/ "Gita" \in Selected
    \/ \E b \in Selected \cap Range(FixedOrder) : BucketMatches(b, CuisineOf(e))

\* A named record that passes the filter
PassingRecord(e) == HasNameTag(e) /\ TextCuisine(e) /\ PassesFilter(e)

\* A named element that makes the body of get_osm_places raise: its cuisine
\* value is not text, or it passes the filter and has no lat/lon
TriggersError(e) ==
    /\ HasNameTag(e)
    /\ \/ ~TextCuisine(e)
       \/ PassesFilter(e) /\ ~({"lat", "lon"} \subseteq DOMAIN e)

\* C11: the result of get_osm_places is all-or-nothing. It is either the
\* empty list or holds, in order, one entry for every named record that
\* passes the filter; when one named element triggers an internal error
\* (missing lat/lon, non-text cuisine) the result is the empty list, whatever
\* was built for the records before it; when none does, nothing is missing.
C11_AllOrNothing ==
    (PlacesReturned /\ KnownCategory(args.category))
    => IF upstream.kind # "ok" THEN ret = <<>>
       ELSE LET es == upstream.elements
                passing == SelectSeq(es, PassingRecord)
                failing == \E i \in 1..Len(es) : TriggersError(es[i])
            IN
            /\ \/ ret = <<>>
               \/ /\ Len(ret) = Len(passing)
                  /\ \A i \in 1..Len(ret) : DerivesFrom(ret[i], passing[i])
            /\ failing => ret = <<>>
            /\ ~failing => KeysOfEntries(ret) = KeysOfElements(passing)

\* A named record that passes the filter and has its coordinates comes before
\* an element that triggers an error, and the result is the empty list
C11_Witness ==
    /\ PlacesReturned /\ KnownCategory(args.category) /\ upstream.kind = "ok"
    /\ \E i, j \in 1..Len(upstream.elements) :
          /\ j < i
          /\ PassingRecord(upstream.elements[j])
          /\ {"lat", "lon"} \subseteq DOMAIN upstream.elements[j]
          /\ TriggersError(upstream.elements[i])
    /\ ret = <<>>

----------------------------------------------------------------------------
(* C12 *)

\* The calls of the log that sent a request to Overpass
Contacted(call) == call.response # NotContacted

\* C12: in a session the memoized get_osm_places contacts the POI service at
\* most once per argument tuple (category, lat, lng, radius, cuisine filter):
\* every later call with the arguments of an earlier one sends no request and
\* returns the list the earlier one returned, also when the first call failed
\* and returned the empty fallback.
C12_AtMostOneRequestPerArguments ==
    /\ \A i, j \in 1..Len(log) :
          (i < j /\ log[i].key = log[j].key)
          => /\ ~Contacted(log[j])
             /\ log[j].ret = log[i].ret
    /\ \A i \in 1..Len(log) :
          (\A h \in 1..(i - 1) : log[h].key # log[i].key) => Contacted(log[i])

\* The first call failed and returned the fallback, a call with other
\* arguments was answered, and the first arguments were called again
C12_Witness ==
    /\ Len(log) = 3
    /\ log[1].response.kind = "error" /\ log[1].ret = <<>>
    /\ log[2].key # log[1].key /\ log[2].ret # <<>>
    /\ log[3].key = log[1].key
    /\ pc = "done" /\ op = "get_osm_places" /\ ret = <<>> /\ upstream = NotContacted

----------------------------------------------------------------------------
(* C13 *)

\* The roles of the chat history, in order
Roles == [i \in 1..Len(session_state.messages) |-> session_state.messages[i].role]

\* The history is a sequence of pairs: a user message, then an assistant's
Alternates ==
    /\ Len(Roles) % 2 = 0
    /\ \A i \in 1..Len(Roles) :
          Roles[i] = IF i % 2 = 1 THEN "user" ELSE "assistant"

\* C13 (as claimed): after any sequence of user actions and at the end of
\* every page run the chat history has even length and strictly alternates
\* user, assistant.
C13_HistoryAlternates == BetweenRuns => Alternates

============================================================================
